---- MODULE Spec2Model ----
(***************************************************************************)
(* Session coordination and broadcast engine of backend/app/main.py:       *)
(* the ConnectionManager (connection registry + session store) and the     *)
(* /ws/estimation websocket endpoint, one coroutine per connection.        *)
(*                                                                         *)
(* The coroutines run on one asyncio event loop: code between two awaits   *)
(* is atomic, and a coroutine may be suspended at every await of           *)
(* receive_json / send_json.  One action of this model is one run of one   *)
(* coroutine from a resumption to its next suspension.                     *)
(***************************************************************************)
EXTENDS Integers, Sequences, FiniteSets, TLC

\* ---------------------------------------------------------------- bounds
NUsers    == 2      \* identities that may connect (userId query parameter)
NConns    == 2      \* websocket connections accepted over the run
MaxEvents == 2      \* CREATE_EVENT messages handled over the run (uuid4 is fresh each time)
MaxMsgs   == 3      \* inbound messages handled over the run
MaxVote   == 2      \* vote values a client may send
MaxKey    == 1      \* ticket keys a client may name
MaxDrops  == 1      \* connections the peer closes or loses over the run
MaxTickets == 2     \* tickets of a session seeded with a ticket list

Users    == 1..NUsers
Conns    == 1..NConns
EventIds == 1..MaxEvents
Votes    == 1..MaxVote
Keys     == 1..MaxKey
None     == 0

\* what an awaited send_json to an endpoint whose socket is no longer open
\* can do in the sending coroutine: return (the frame is lost), raise
\* WebSocketDisconnect, or raise another exception
Outcomes == {"lost", "disconnect", "error"}

\* outcomes of the at most two failing sends of one step: the second one
\* happens only in the except block, entered when the first raised
\* WebSocketDisconnect, and there both exceptions end the coroutine
OutcomePairs == {<<"lost", "lost">>, <<"error", "lost">>,
                 <<"disconnect", "lost">>, <<"disconnect", "error">>}

VARIABLES
  active_connections,  \* manager.active_connections: userId -> websocket (connection) or None
  events,              \* keys of manager.events
  eventObj,            \* the event dict object created for each id (it outlives its key)
  created,             \* number of event ids generated so far; dict order is creation order
  pc,                  \* per connection: position of its websocket_endpoint coroutine
  userId,              \* per connection: the userId query parameter
  alive,               \* per connection: the peer still holds the socket open
  task,                \* per connection: message and loop state of the send it is suspended in
  diter,               \* per connection: iterator of manager.events.items() in the except block
  inbox,               \* per connection: frames written to its socket, in order
  applied,             \* history: mutations of the session store, in the order applied
  nrecv,               \* history: number of inbound messages handled
  reconRuns,           \* history: per connection, times the except block was entered
  reconAt              \* history: per connection, sessions of the user when the except block was
                       \* entered, and whether a send of the except block raised

vars == <<active_connections, events, eventObj, created, pc, userId, alive,
          task, diter, inbox, applied, nrecv, reconRuns, reconAt>>

\* ------------------------------------------------------------ data model
NoneEvent == [hostId |-> None, participants |-> <<>>, tickets |-> <<>>,
              currentTicketIndex |-> 0, status |-> "none"]

NoTask == [type |-> "none", ev |-> None, mut |-> 0, key |-> 0, vote |-> 0, uid |-> None,
           lev |-> None, idx |-> 0, live |-> FALSE, saved |-> <<>>]

NoIter == [pos |-> 0, used |-> 0]

Min(S) == CHOOSE x \in S : \A y \in S : x <= y

Ids(parts) == {parts[i].id : i \in 1..Len(parts)}

CountId(parts, u) == Cardinality({i \in 1..Len(parts) : parts[i].id = u})

\* the mutable program state an endpoint step works on
State == [active_connections |-> active_connections, events |-> events,
          eventObj |-> eventObj, created |-> created, pc |-> pc, task |-> task,
          diter |-> diter, inbox |-> inbox, applied |-> applied,
          reconRuns |-> reconRuns, reconAt |-> reconAt]

Set(st) ==
  /\ active_connections' = st.active_connections
  /\ events' = st.events
  /\ eventObj' = st.eventObj
  /\ created' = st.created
  /\ pc' = st.pc
  /\ task' = st.task
  /\ diter' = st.diter
  /\ inbox' = st.inbox
  /\ applied' = st.applied
  /\ reconRuns' = st.reconRuns
  /\ reconAt' = st.reconAt

\* ---------------------------------------------------- ConnectionManager
connect(st, c, u) == [st EXCEPT !.active_connections[u] = c]

disconnect(st, u) == [st EXCEPT !.active_connections[u] = None]

create_event(st, e, host) ==
  [st EXCEPT !.events = @ \cup {e},
             !.eventObj[e] = [hostId |-> host,
                              participants |-> <<[id |-> host, isHost |-> TRUE]>>,
                              tickets |-> <<>>,
                              currentTicketIndex |-> 0,
                              status |-> "active"]]

\* join_event that rebuilds the list from its first entry and the joiner,
\* dropping whatever was appended in between
join_event_lost(st, e, u) ==
  IF e \in st.events
    THEN [st EXCEPT !.eventObj[e].participants = <<@[1], [id |-> u, isHost |-> FALSE]>>]
    ELSE st

join_event(st, e, u) ==
  IF e \in st.events
    THEN [st EXCEPT !.eventObj[e].participants = Append(@, [id |-> u, isHost |-> FALSE])]
    ELSE st

\* leave_event without the deletion of a session that became empty
leave_event_keep(st, e, u) ==
  IF e \in st.events
    THEN LET old == st.eventObj[e].participants
             new == SelectSeq(old, LAMBDA p : p.id # u)
             det == [c \in Conns |->
                       IF st.task[c].lev = e /\ st.task[c].live
                         THEN [st.task[c] EXCEPT !.live = FALSE, !.saved = old]
                         ELSE st.task[c]]
         IN [st EXCEPT !.eventObj[e].participants = new, !.task = det]
    ELSE st

\* event['participants'] is rebound to a new list: a broadcast loop that is
\* iterating the old list object keeps the old list
leave_event(st, e, u) ==
  IF e \in st.events
    THEN LET old == st.eventObj[e].participants
             new == SelectSeq(old, LAMBDA p : p.id # u)
             det == [c \in Conns |->
                       IF st.task[c].lev = e /\ st.task[c].live
                         THEN [st.task[c] EXCEPT !.live = FALSE, !.saved = old]
                         ELSE st.task[c]]
         IN [st EXCEPT !.eventObj[e].participants = new,
                       !.task = det,
                       !.events = IF new = <<>> THEN @ \ {e} ELSE @]
    ELSE st

\* ------------------------------------------------------------- delivery
\* the socket of connection d accepts frames
Open(st, d) == alive[d] /\ st.pc[d] \in {"recv", "bcast"}

\* send_json serialises the message when it is called: the 'event' entry is
\* a reference to the event dict, so the frame shows the dict as it is now
Frame(st, t) ==
  [type |-> t.type, mut |-> t.mut, ev |-> t.ev,
   event |-> IF t.ev = None THEN NoneEvent ELSE st.eventObj[t.ev],
   key |-> t.key, vote |-> t.vote, uid |-> t.uid]

\* await websocket.send_json(message) on the socket of connection d
send_json(st, c, d, o) ==
  IF Open(st, d)
    THEN [st |-> [st EXCEPT !.inbox[d] = Append(@, Frame(st, st.task[c]))], res |-> "suspended"]
    ELSE [st |-> st, res |-> IF o = "lost" THEN "suspended" ELSE o]

send_personal_message(st, c, m, u, o) ==
  IF st.active_connections[u] # None
    THEN send_json([st EXCEPT !.task[c] = m], c, st.active_connections[u], o)
    ELSE [st |-> st, res |-> "finished"]

LoopList(st, c) ==
  IF st.task[c].live THEN st.eventObj[st.task[c].lev].participants ELSE st.task[c].saved

\* the for loop of broadcast_to_event, from the participant index it stopped at
Fan(st, c, o) ==
  LET t == st.task[c]
      list == LoopList(st, c)
      todo == {i \in 1..Len(list) : i >= t.idx /\ st.active_connections[list[i].id] # None}
  IN IF t.lev = None \/ todo = {}
       THEN [st |-> st, res |-> "finished"]
       ELSE LET i == Min(todo)
            IN send_json([st EXCEPT !.task[c].idx = i + 1], c,
                         st.active_connections[list[i].id], o)

broadcast_to_event(st, c, m, e, o) ==
  IF e \in st.events
    THEN Fan([st EXCEPT !.task[c] = [m EXCEPT !.lev = e, !.idx = 1, !.live = TRUE]], c, o)
    ELSE [st |-> st, res |-> "finished"]

Msg(type, e, mut, k, v, u) ==
  [NoTask EXCEPT !.type = type, !.ev = e, !.mut = mut, !.key = k, !.vote = v, !.uid = u]

\* history: a mutation of session e was just applied by connection c
Log(st, e, kind, c) ==
  [st EXCEPT !.applied = Append(@, [ev |-> e, kind |-> kind, by |-> userId[c], conn |-> c,
                                    after |-> st.eventObj[e]])]

\* --------------------------------------------------- websocket_endpoint
\* the coroutine ends with an exception other than WebSocketDisconnect
Crash(st, c) == [st EXCEPT !.pc[c] = "crashed", !.task[c] = NoTask, !.diter[c] = NoIter]

\* an awaited send_json inside the except block raises: the coroutine ends
Fail(st, c) == [Crash(st, c) EXCEPT !.reconAt[c].failed = TRUE]

\* for event_id, event in manager.events.items(): ... in the except block.
\* The dict iterator raises RuntimeError when the size of the dict differs
\* from the size it had when the iterator was created; otherwise it yields
\* the next key at or after its position.
RECURSIVE ReconLoop(_, _, _)
ReconLoop(st, c, o) ==
  LET it == st.diter[c]
      rest == {e \in st.events : e >= it.pos}
  IN IF it.used # Cardinality(st.events)
       THEN Crash(st, c)
       ELSE IF rest = {}
         THEN [st EXCEPT !.pc[c] = "done", !.task[c] = NoTask, !.diter[c] = NoIter]
         ELSE LET e == Min(rest)
                  st1 == [st EXCEPT !.diter[c].pos = e + 1, !.task[c] = NoTask]
              IN IF userId[c] \in Ids(st1.eventObj[e].participants)
                   THEN LET st2 == Log(leave_event(st1, e, userId[c]), e, "disconnect", c)
                            m == Msg("PARTICIPANT_LEFT",
                                     IF e \in st2.events THEN e ELSE None,
                                     Len(st2.applied), 0, 0, userId[c])
                            r == broadcast_to_event(st2, c, m, e, o)
                        IN CASE r.res = "suspended" -> [r.st EXCEPT !.pc[c] = "recon"]
                             [] r.res = "finished" -> ReconLoop(r.st, c, o)
                             [] OTHER -> Fail(r.st, c)
                   ELSE ReconLoop(st1, c, o)

\* except WebSocketDisconnect: up to the first suspension
except_disconnect(st, c, o) ==
  LET u == userId[c]
      mine == {e \in st.events : u \in Ids(st.eventObj[e].participants)}
      st1 == [disconnect(st, u) EXCEPT
                !.reconRuns[c] = @ + 1,
                !.reconAt[c] = [member |-> mine,
                                sole |-> {e \in mine : Ids(st.eventObj[e].participants) = {u}},
                                failed |-> FALSE],
                !.task[c] = NoTask,
                !.diter[c] = [pos |-> 1, used |-> Cardinality(st.events)]]
  IN ReconLoop(st1, c, o)

\* where the coroutine is after an awaited send inside the try block
after_send(r, c, o) ==
  CASE r.res = "suspended"  -> [r.st EXCEPT !.pc[c] = "bcast"]
    [] r.res = "finished"   -> [r.st EXCEPT !.pc[c] = "recv", !.task[c] = NoTask]
    [] r.res = "disconnect" -> except_disconnect(r.st, c, o)
    [] OTHER                -> Crash(r.st, c)

\* ---------------------------------------------------------------- actions
Init ==
  /\ active_connections = [u \in Users |-> None]
  /\ events = {}
  /\ eventObj = [e \in EventIds |-> NoneEvent]
  /\ created = 0
  /\ pc = [c \in Conns |-> "new"]
  /\ userId = [c \in Conns |-> None]
  /\ alive = [c \in Conns |-> FALSE]
  /\ task = [c \in Conns |-> NoTask]
  /\ diter = [c \in Conns |-> NoIter]
  /\ inbox = [c \in Conns |-> <<>>]
  /\ applied = <<>>
  /\ nrecv = 0
  /\ reconRuns = [c \in Conns |-> 0]
  /\ reconAt = [c \in Conns |-> [member |-> {}, sole |-> {}, failed |-> FALSE]]

\* a client opens /ws/estimation?userId=u: manager.connect
Connect(c, u) ==
  /\ pc[c] = "new"
  /\ \A d \in Conns : d < c => pc[d] # "new"
  /\ \A v \in Users : v < u => \E d \in Conns : userId[d] = v
  /\ userId' = [userId EXCEPT ![c] = u]
  /\ alive' = [alive EXCEPT ![c] = TRUE]
  /\ Set([connect(State, c, u) EXCEPT !.pc[c] = "recv"])
  /\ UNCHANGED nrecv

\* receive_json returns a message
Receives(c) ==
  /\ pc[c] = "recv"
  /\ alive[c]
  /\ nrecv < MaxMsgs
  /\ nrecv' = nrecv + 1
  /\ UNCHANGED <<userId, alive>>

CreateEvent(c) ==
  /\ Receives(c)
  /\ created < MaxEvents
  /\ \E oo \in OutcomePairs :
       LET e == created + 1
           st1 == Log(create_event([State EXCEPT !.created = e], e, userId[c]), e, "create", c)
           m == Msg("EVENT_CREATED", e, Len(st1.applied), 0, 0, None)
       IN Set(after_send(send_personal_message(st1, c, m, userId[c], oo[1]), c, oo[2]))

JoinEvent(c, e) ==
  /\ Receives(c)
  /\ \E oo \in OutcomePairs :
       IF e \in events
         THEN LET st1 == Log(join_event(State, e, userId[c]), e, "join", c)
                  m == Msg("EVENT_UPDATED", e, Len(st1.applied), 0, 0, None)
              IN Set(after_send(broadcast_to_event(st1, c, m, e, oo[1]), c, oo[2]))
         ELSE LET m == Msg("ERROR", None, 0, 0, 0, None)
              IN Set(after_send(send_personal_message(State, c, m, userId[c], oo[1]), c, oo[2]))

LeaveEvent(c, e) ==
  /\ Receives(c)
  /\ \E oo \in OutcomePairs :
       LET was == e \in events /\ userId[c] \in Ids(eventObj[e].participants)
           st0 == leave_event(State, e, userId[c])
           st1 == IF was THEN Log(st0, e, "leave", c) ELSE st0
           m == Msg("EVENT_UPDATED", IF e \in st1.events THEN e ELSE None,
                    IF was THEN Len(st1.applied) ELSE 0, 0, 0, None)
       IN Set(after_send(broadcast_to_event(st1, c, m, e, oo[1]), c, oo[2]))

\* positions of the tickets of a list whose key is k
TicketHit(tickets, k) == {i \in 1..Len(tickets) : tickets[i].key = k}

\* the assignment written as ticket['votes'].setdefault(userId, vote): a
\* vote already recorded is kept
record_vote_first(st, e, u, k, v) ==
  LET hit == TicketHit(st.eventObj[e].tickets, k)
  IN IF hit = {} THEN st
     ELSE [st EXCEPT !.eventObj[e].tickets[Min(hit)].votes[u] = IF @ = 0 THEN v ELSE @]

\* a recording that adds the ticket when no ticket has the key
record_vote_add(st, e, u, k, v) ==
  LET hit == TicketHit(st.eventObj[e].tickets, k)
      fresh == [key |-> k, votes |-> [x \in Users |-> IF x = u THEN v ELSE 0]]
  IN IF hit = {} THEN [st EXCEPT !.eventObj[e].tickets = Append(@, fresh)]
     ELSE [st EXCEPT !.eventObj[e].tickets[Min(hit)].votes[u] = v]

\* for ticket in event['tickets']: the first ticket with the key gets
\* ticket['votes'][userId] = vote
record_vote(st, e, u, k, v) ==
  LET hit == TicketHit(st.eventObj[e].tickets, k)
  IN IF hit = {} THEN st
     ELSE [st EXCEPT !.eventObj[e].tickets[Min(hit)].votes[u] = v]

Vote(c, e, k, v) ==
  /\ Receives(c)
  /\ \E oo \in OutcomePairs :
       IF e \in events
         THEN LET hit == TicketHit(eventObj[e].tickets, k)
                  st0 == record_vote(State, e, userId[c], k, v)
                  st1 == IF hit = {} THEN st0 ELSE Log(st0, e, "vote", c)
                  m == Msg("VOTE_RECEIVED", e, IF hit = {} THEN 0 ELSE Len(st1.applied),
                           k, v, userId[c])
              IN Set(after_send(broadcast_to_event(st1, c, m, e, oo[1]), c, oo[2]))
         ELSE Set(State)

\* a message without 'type', without 'payload' or without a payload field
\* the branch reads: KeyError before any state is touched
Malformed(c) ==
  /\ Receives(c)
  /\ Set(Crash(State, c))

\* REGISTER_USER or an unknown type: no branch does anything
Other(c) ==
  /\ Receives(c)
  /\ Set(State)

\* the peer closes or loses the connection
Drop(c) ==
  /\ alive[c]
  /\ Cardinality({d \in Conns : pc[d] # "new" /\ ~alive[d]}) < MaxDrops
  /\ pc[c] \in {"recv", "bcast"}
  /\ alive' = [alive EXCEPT ![c] = FALSE]
  /\ UNCHANGED <<active_connections, events, eventObj, created, pc, userId, task, diter,
                 inbox, applied, nrecv, reconRuns, reconAt>>

\* receive_json raises WebSocketDisconnect
Disconnect(c) ==
  /\ pc[c] = "recv"
  /\ ~alive[c]
  /\ \E o \in Outcomes : Set(except_disconnect(State, c, o))
  /\ UNCHANGED <<userId, alive, nrecv>>

\* an awaited send_json inside the try block returns
ResumeTry(c) ==
  /\ pc[c] = "bcast"
  /\ \E oo \in OutcomePairs : Set(after_send(Fan(State, c, oo[1]), c, oo[2]))
  /\ UNCHANGED <<userId, alive, nrecv>>

\* an awaited send_json inside the except block returns
ResumeExcept(c) ==
  /\ pc[c] = "recon"
  /\ \E o \in Outcomes :
       LET r == Fan(State, c, o)
       IN Set(CASE r.res = "suspended" -> r.st
                [] r.res = "finished" -> ReconLoop(r.st, c, o)
                [] OTHER -> Fail(r.st, c))
  /\ UNCHANGED <<userId, alive, nrecv>>

Next ==
  \/ \E c \in Conns, u \in Users : Connect(c, u)
  \/ \E c \in Conns : CreateEvent(c)
  \/ \E c \in Conns, e \in EventIds : JoinEvent(c, e)
  \/ \E c \in Conns, e \in EventIds : LeaveEvent(c, e)
  \/ \E c \in Conns, e \in EventIds, k \in Keys, v \in Votes : Vote(c, e, k, v)
  \/ \E c \in Conns : Malformed(c)
  \/ \E c \in Conns : Other(c)
  \/ \E c \in Conns : Drop(c)
  \/ \E c \in Conns : Disconnect(c)
  \/ \E c \in Conns : ResumeTry(c)
  \/ \E c \in Conns : ResumeExcept(c)

Spec == Init /\ [][Next]_vars

\* ------------------------------------------- sessions seeded with tickets
\* No branch of the endpoint adds a ticket, so the VOTE branch is exercised
\* on a session whose ticket list was supplied from outside: the state after
\* identity 1 created session 1 over connection 1 and the list was set.
\* votes[u] = 0 stands for "u not in ticket['votes']".
SeedVotes == {f \in [Users -> 0..MaxVote] : f[1] = 0}

TicketSeeds ==
  UNION {[1..n -> [key : Keys, votes : SeedVotes]] : n \in 1..MaxTickets}

SeedEvent(tk) ==
  [hostId |-> 1, participants |-> <<[id |-> 1, isHost |-> TRUE]>>, tickets |-> tk,
   currentTicketIndex |-> 0, status |-> "active"]

InitVote ==
  \E tk \in TicketSeeds :
    /\ active_connections = [u \in Users |-> IF u = 1 THEN 1 ELSE None]
    /\ events = {1}
    /\ eventObj = [e \in EventIds |-> IF e = 1 THEN SeedEvent(tk) ELSE NoneEvent]
    /\ created = 1
    /\ pc = [c \in Conns |-> IF c = 1 THEN "recv" ELSE "new"]
    /\ userId = [c \in Conns |-> IF c = 1 THEN 1 ELSE None]
    /\ alive = [c \in Conns |-> c = 1]
    /\ task = [c \in Conns |-> NoTask]
    /\ diter = [c \in Conns |-> NoIter]
    /\ inbox = [c \in Conns |->
                  IF c = 1 THEN <<[type |-> "EVENT_CREATED", mut |-> 1, ev |-> 1,
                                   event |-> SeedEvent(<<>>), key |-> 0, vote |-> 0,
                                   uid |-> None]>>
                  ELSE <<>>]
    /\ applied = <<[ev |-> 1, kind |-> "create", by |-> 1, conn |-> 1,
                    after |-> SeedEvent(<<>>)],
                   [ev |-> 1, kind |-> "seed", by |-> None, conn |-> None,
                    after |-> SeedEvent(tk)]>>
    /\ nrecv = 1
    /\ reconRuns = [c \in Conns |-> 0]
    /\ reconAt = [c \in Conns |-> [member |-> {}, sole |-> {}, failed |-> FALSE]]

NextVote ==
  \/ \E c \in Conns, u \in Users : Connect(c, u)
  \/ \E c \in Conns, e \in EventIds, k \in Keys, v \in Votes : Vote(c, e, k, v)
  \/ \E c \in Conns : ResumeTry(c)

SpecVote == InitVote /\ [][NextVote]_vars

TypeOK ==
  /\ active_connections \in [Users -> Conns \cup {None}]
  /\ events \subseteq 1..created
  /\ created \in 0..MaxEvents
  /\ pc \in [Conns -> {"new", "recv", "bcast", "recon", "done", "crashed"}]
  /\ nrecv \in 0..MaxMsgs

\* ------------------------------------------------------------ properties
Max(S) == CHOOSE x \in S : \A y \in S : y <= x

Muts == DOMAIN applied

\* frames of mutation m in the inbox of connection d
FramesOf(d, m) == {i \in DOMAIN inbox[d] : inbox[d][i].mut = m}

\* connection d is the only connection identity u ever opened
OnlyConn(u, d) == \A c \in Conns : userId[c] = u => c = d

\* C1: a session is in the Session Store if and only if its participant
\* list has at least one entry; no state shows a stored session with an
\* empty list, so an emptied session leaves the store in the step that
\* emptied it.
C1_Lifecycle ==
  \A e \in EventIds : (e \in events) <=> (Len(eventObj[e].participants) >= 1)

\* a session was emptied by a LEAVE_EVENT or by disconnect reconciliation
\* and is gone from the store, while another session is still stored
C1_Witness ==
  \E m \in Muts :
    /\ applied[m].kind \in {"leave", "disconnect"}
    /\ applied[m].after.participants = <<>>
    /\ applied[m].ev \notin events
    /\ events # {}

\* C2: once the reconciler has run for a lost connection of identity U that
\* was a participant of two sessions, U is a participant of neither, and
\* each of the two whose only participant was U is gone from the store.
C2_DisconnectCleanup ==
  \A c \in Conns :
    ( /\ pc[c] \in {"done", "crashed"}
      /\ ~alive[c]
      /\ reconRuns[c] = 1
      /\ Cardinality(reconAt[c].member) = 2
      /\ OnlyConn(userId[c], c) )
    => /\ \A e \in reconAt[c].member : userId[c] \notin Ids(eventObj[e].participants)
       /\ \A e \in reconAt[c].sole : e \notin events

\* C3: no stored session's participant list has two entries with the same id.
C3_ParticipantsUnique ==
  \A e \in events : \A u \in Users : CountId(eventObj[e].participants, u) <= 1

\* C4: every stored session has exactly one participant entry with isHost.
C4_SingleHost ==
  \A e \in events :
    Cardinality({i \in DOMAIN eventObj[e].participants :
                   eventObj[e].participants[i].isHost}) = 1

\* C5: every participant entry whose id is the session's hostId has isHost.
C5_HostInvariance ==
  \A e \in events : \A i \in DOMAIN eventObj[e].participants :
    eventObj[e].participants[i].id = eventObj[e].hostId
      => eventObj[e].participants[i].isHost

\* the fan-out of mutation m is over
FanoutDone(m) == \A c \in Conns : ~(pc[c] = "bcast" /\ task[c].mut = m)

\* C6: once the fan-out of a JOIN_EVENT, LEAVE_EVENT or recording VOTE is
\* over, every participant of the post-mutation session whose one and only
\* connection is registered and open has received exactly one notification
\* for it, carrying the post-mutation session.
C6_BroadcastComplete ==
  \A m \in Muts :
    (applied[m].kind \in {"join", "leave", "vote"} /\ FanoutDone(m))
    => \A u \in Ids(applied[m].after.participants) :
         LET d == active_connections[u]
         IN (d # None /\ OnlyConn(u, d) /\ alive[d] /\ pc[d] \in {"recv", "bcast"})
            => /\ Cardinality(FramesOf(d, m)) = 1
               /\ \A i \in FramesOf(d, m) : inbox[d][i].event = applied[m].after

\* C7: for two mutations m1 before m2 of the same session applied by the
\* handlers of different connections, a connection that received
\* notifications of both received its first one of m1 before its first one
\* of m2.
C7_BroadcastOrder ==
  \A d \in Conns : \A m1 \in Muts, m2 \in Muts :
    ( /\ m1 < m2
      /\ applied[m1].ev = applied[m2].ev
      /\ applied[m1].conn # applied[m2].conn
      /\ applied[m1].kind \in {"join", "leave", "vote"}
      /\ applied[m2].kind \in {"join", "leave", "vote"}
      /\ FramesOf(d, m1) # {}
      /\ FramesOf(d, m2) # {} )
    => Min(FramesOf(d, m1)) < Min(FramesOf(d, m2))

\* entries identity u is expected to have in session e: its CREATE_EVENT and
\* accepted JOIN_EVENTs since its last removal from e
LastRemoval(e, u) ==
  LET S == {m \in Muts : /\ applied[m].ev = e
                         /\ applied[m].by = u
                         /\ applied[m].kind \in {"leave", "disconnect"}}
  IN IF S = {} THEN 0 ELSE Max(S)

Expected(e, u) ==
  Cardinality({m \in Muts : /\ m > LastRemoval(e, u)
                            /\ applied[m].ev = e
                            /\ applied[m].by = u
                            /\ applied[m].kind \in {"create", "join"}})

\* C8: under every interleaving of the handlers, each session's participant
\* list holds exactly the entries of the CREATE_EVENT and JOIN_EVENT handled
\* for it that no later LEAVE_EVENT or disconnect of the same identity
\* removed: no handled update is lost.
C8_NoLostUpdate ==
  \A e \in EventIds : \A u \in Users :
    CountId(eventObj[e].participants, u) = Expected(e, u)

\* two handlers of distinct identities are both suspended in the fan-out of
\* their JOIN_EVENT on the same session, and both identities are in its list
C8_Witness ==
  \E c \in Conns, d \in Conns :
    /\ c # d
    /\ userId[c] # userId[d]
    /\ pc[c] = "bcast" /\ pc[d] = "bcast"
    /\ task[c].mut # 0 /\ task[d].mut # 0
    /\ applied[task[c].mut].kind = "join" /\ applied[task[d].mut].kind = "join"
    /\ task[c].lev = task[d].lev
    /\ {userId[c], userId[d]} \subseteq Ids(eventObj[task[c].lev].participants)

\* C9: the session carried by every delivered notification of a broadcast
\* equals the session as it was right after the mutation that triggered
\* the broadcast.
C9_SnapshotAtMutation ==
  \A d \in Conns : \A i \in DOMAIN inbox[d] :
    (inbox[d][i].mut # 0
       /\ inbox[d][i].type \in {"EVENT_UPDATED", "VOTE_RECEIVED", "PARTICIPANT_LEFT"})
    => inbox[d][i].event = applied[inbox[d][i].mut].after

\* C10: when the connection of identity U was lost and its handler has
\* ended, the except block ran exactly once for it and U (who has no other
\* connection) is absent from the registry and from every stored session.
C10_ReconcilesOnce ==
  \A c \in Conns :
    (pc[c] \in {"done", "crashed"} /\ ~alive[c] /\ OnlyConn(userId[c], c))
    => /\ reconRuns[c] = 1
       /\ active_connections[userId[c]] = None
       /\ \A e \in events : userId[c] \notin Ids(eventObj[e].participants)

\* C11: a malformed inbound message leaves the Session Store and the
\* Connection Registry unchanged and the handler of the sender goes on
\* receiving.
C11_MalformedDropped ==
  [][\A c \in Conns :
       Malformed(c) => /\ events' = events
                       /\ eventObj' = eventObj
                       /\ active_connections' = active_connections
                       /\ pc'[c] = "recv"]_vars

\* C12: a VOTE naming a stored session and a ticketKey that matches none of
\* its tickets changes no state and delivers no notification to anyone.
C12_VoteAbsentTicketSilent ==
  [][\A c \in Conns, e \in EventIds, k \in Keys, v \in Votes :
       (Vote(c, e, k, v) /\ e \in events /\ TicketHit(eventObj[e].tickets, k) = {})
       => /\ events' = events
          /\ eventObj' = eventObj
          /\ inbox' = inbox]_vars

\* frames delivered in this step to the connections of a set of identities
NewFrames(U) ==
  UNION {{<<d, i>> : i \in {j \in DOMAIN inbox'[d] : j > Len(inbox[d])}} :
           d \in {x \in Conns : userId[x] \in U}}

\* C13: a JOIN_EVENT for an id that is not in the Session Store leaves the
\* store unchanged, delivers exactly one ERROR frame to the sender's
\* identity and delivers nothing to any other identity.
C13_JoinMissing ==
  [][\A c \in Conns, e \in EventIds :
       (JoinEvent(c, e) /\ e \notin events)
       => /\ events' = events
          /\ eventObj' = eventObj
          /\ Cardinality(NewFrames({userId[c]})) = 1
          /\ \A f \in NewFrames({userId[c]}) : inbox'[f[1]][f[2]].type = "ERROR"
          /\ NewFrames(Users \ {userId[c]}) = {}]_vars

\* C14: a LEAVE_EVENT for a session that is absent, or of which the sender
\* is not a participant, leaves the Session Store unchanged and delivers no
\* notification to anyone.
C14_LeaveNoOpSilent ==
  [][\A c \in Conns, e \in EventIds :
       (LeaveEvent(c, e)
          /\ (e \notin events \/ userId[c] \notin Ids(eventObj[e].participants)))
       => /\ events' = events
          /\ eventObj' = eventObj
          /\ inbox' = inbox]_vars

\* delivered frames, of every connection
AllFrames == UNION {{inbox[d][i] : i \in DOMAIN inbox[d]} : d \in Conns}

\* the VOTE message behind mutation m, as its VOTE_RECEIVED frames show it
VoteMsg(m) == CHOOSE f \in AllFrames : f.mut = m

\* recording VOTEs of identity u that hit ticket i of session e
VoteMuts(e, u, i) ==
  {m \in Muts : /\ applied[m].kind = "vote"
                /\ applied[m].ev = e
                /\ applied[m].by = u
                /\ Min(TicketHit(eventObj[e].tickets, VoteMsg(m).key)) = i}

SeedOf(e) == applied[CHOOSE m \in Muts : applied[m].kind = "seed" /\ applied[m].ev = e].after

\* C15: for every ticket of a session and every identity, the recorded
\* vote is the value of the latest VOTE of that identity that hit the
\* ticket, whatever it voted before, and the vote of an identity that sent
\* no such VOTE is the one the ticket list came with.
C15_VoteOverwrite ==
  \A e \in events : \A u \in Users : \A i \in DOMAIN eventObj[e].tickets :
    eventObj[e].tickets[i].votes[u] =
      IF VoteMuts(e, u, i) = {} THEN SeedOf(e).tickets[i].votes[u]
      ELSE VoteMsg(Max(VoteMuts(e, u, i))).vote

\* an identity voted twice on the same ticket with different values while
\* another identity holds a vote on that ticket
C15_Witness ==
  \E e \in events : \E u \in Users : \E i \in DOMAIN eventObj[e].tickets :
    /\ \E m1 \in VoteMuts(e, u, i), m2 \in VoteMuts(e, u, i) :
         m1 < m2 /\ VoteMsg(m1).vote # VoteMsg(m2).vote
    /\ \E w \in Users \ {u} : eventObj[e].tickets[i].votes[w] # 0

\* C16: when a PARTICIPANT_LEFT broadcast of the reconciliation of identity
\* U failed, U (who has no other connection) is still removed from every
\* session it was a participant of when the reconciliation started.
C16_ReconcilerIndependent ==
  \A c \in Conns :
    (reconAt[c].failed /\ OnlyConn(userId[c], c))
    => \A e \in reconAt[c].member : userId[c] \notin Ids(eventObj[e].participants)

\* sessions other than e are as they were before the step
OthersUnchanged(e) ==
  /\ events' \ {e} = events \ {e}
  /\ \A x \in EventIds \ {e} : eventObj'[x] = eventObj[x]

\* C17: a CREATE_EVENT of identity h adds exactly one session, with hostId
\* h and the single participant {id: h, isHost: true}, leaves every other
\* session unchanged and delivers one EVENT_CREATED frame to h and nothing
\* to any other identity.
C17_CreateEffect ==
  [][\A c \in Conns :
       CreateEvent(c)
       => LET e == created + 1
              h == userId[c]
          IN /\ events' = events \cup {e}
             /\ eventObj'[e].hostId = h
             /\ eventObj'[e].participants = <<[id |-> h, isHost |-> TRUE]>>
             /\ OthersUnchanged(e)
             /\ Cardinality(NewFrames({h})) = 1
             /\ \A f \in NewFrames({h}) : inbox'[f[1]][f[2]].type = "EVENT_CREATED"
             /\ NewFrames(Users \ {h}) = {}]_vars

\* ------------------------------------------------ colliding session ids
\* CREATE_EVENT where uuid.uuid4() returns the id e, which may be the key of
\* a stored session: create_event assigns self.events[event_id] without
\* looking at the dict. Explored while no awaited send refers to e, so that
\* no frame still holds the replaced dict.
CreateEventId(c, e) ==
  /\ Receives(c)
  /\ created < MaxEvents
  /\ \A d \in Conns : task[d].ev # e /\ task[d].lev # e
  /\ \E oo \in OutcomePairs :
       LET st1 == Log(create_event([State EXCEPT !.created = @ + 1], e, userId[c]),
                      e, "create", c)
           m == Msg("EVENT_CREATED", e, Len(st1.applied), 0, 0, None)
       IN Set(after_send(send_personal_message(st1, c, m, userId[c], oo[1]), c, oo[2]))

NextDup ==
  \/ \E c \in Conns, u \in Users : Connect(c, u)
  \/ \E c \in Conns, e \in EventIds : CreateEventId(c, e)
  \/ \E c \in Conns, e \in EventIds : JoinEvent(c, e)
  \/ \E c \in Conns : ResumeTry(c)

SpecDup == Init /\ [][NextDup]_vars

\* C18: creating a session under an id that is already a key of the session
\* store leaves the stored session (participants, tickets, votes) unchanged.
C18_DuplicateRejected ==
  [][\A c \in Conns, e \in EventIds :
       (CreateEventId(c, e) /\ e \in events) => eventObj'[e] = eventObj[e]]_vars

\* C19: a failure while a handler whose own connection is open handles a
\* well-formed message, a delivery failure to another endpoint included,
\* does not end the handler (it keeps receiving or keeps fanning out), and
\* a fan-out that continues changes no session.
C19_FailureContained ==
  [][\A c \in Conns :
       (alive[c] /\ pc[c] \in {"recv", "bcast"} /\ ~Malformed(c))
       => /\ pc'[c] \in {"recv", "bcast"}
          /\ ResumeTry(c) => (events' = events /\ eventObj' = eventObj)]_vars

\* C20: every identity that has a handler receiving on an open connection
\* has an endpoint in the connection registry; in particular the loss of a
\* superseded connection does not deregister the identity.
C20_LiveIsRegistered ==
  \A c \in Conns :
    (alive[c] /\ pc[c] \in {"recv", "bcast"}) => active_connections[userId[c]] # None

\* identities that are participants of session e before or after the step
InSession(e) ==
  (IF e \in events THEN Ids(eventObj[e].participants) ELSE {})
  \cup (IF e \in events' THEN Ids(eventObj'[e].participants) ELSE {})

\* identities that are participants of a session other than e and not of e
Outsiders(e) ==
  {u \in Users : \E b \in events \ {e} : u \in Ids(eventObj[b].participants)} \ InSession(e)

\* C21: a JOIN_EVENT, LEAVE_EVENT or VOTE that targets session e leaves
\* every other session as it was and delivers no frame to an identity other
\* than the sender that is a participant of another session but not of e
\* (the sender may get the ERROR reply of a JOIN_EVENT).
C21_SessionIsolation ==
  [][\A c \in Conns, e \in EventIds :
       (JoinEvent(c, e) \/ LeaveEvent(c, e) \/ \E k \in Keys, v \in Votes : Vote(c, e, k, v))
       => /\ OthersUnchanged(e)
          /\ NewFrames(Outsiders(e) \ {userId[c]}) = {}]_vars

\* C22: in every state reached from the empty session store by the
\* messages of the protocol and by disconnects, every stored session has an
\* empty ticket list, currentTicketIndex 0 and status "active", and no VOTE
\* has recorded a vote.
C22_NoTickets ==
  /\ \A e \in events : /\ eventObj[e].tickets = <<>>
                       /\ eventObj[e].currentTicketIndex = 0
                       /\ eventObj[e].status = "active"
  /\ \A i \in DOMAIN applied : applied[i].kind # "vote"

\* a VOTE for a stored session was handled and announced to a participant
C22_Witness ==
  \E e \in events, c \in Conns :
    \E i \in DOMAIN inbox[c] : inbox[c][i].type = "VOTE_RECEIVED" /\ inbox[c][i].ev = e

====
